---- MODULE Spec2Model ----
(***************************************************************************)
(* A model of calendar_sync.py: the one-way reconciliation of an iCalendar *)
(* feed into a CalDAV calendar (sync_calendars and the functions it        *)
(* calls).                                                                 *)
(*                                                                         *)
(* Time is a scaled calendar: a day has MinPerDay minutes, a minute has    *)
(* SecPerMin seconds, a UTC offset is a whole number of minutes.  Text is  *)
(* a sequence of one-character strings.                                    *)
(***************************************************************************)
EXTENDS Integers, Sequences, FiniteSets, TLC

\* ------------------------------------------------------------------ bounds
MinPerDay == 2      \* minutes in a day of the scaled calendar
SecPerMin == 2      \* seconds in a minute of the scaled calendar
DaysAhead == 1      \* config['days_ahead'], the lookahead horizon in days
TzOff == 1          \* UTC offset (in minutes) of config['timezone']
MaxFeed == 2        \* most events in the source feed
MaxStore == 2       \* most records in the destination before the first pass
MaxPasses == 2      \* passes of sync_calendars in one behaviour
MaxFaults == 1      \* most collaborator calls that fail in one behaviour
MaxCalendars == 2   \* most calendars of the destination account

\* -------------------------------------------------------------------- text
Digits == <<"0", "1", "2", "3", "4", "5", "6", "7", "8", "9">>

\* A decimal numeral of fixed width two, as strftime pads its fields.
NatStr(n) == <<Digits[((n \div 10) % 10) + 1], Digits[(n % 10) + 1]>>

\* An optional property of a component: absent, or present with a text value.
Absent == [has |-> FALSE, v |-> <<>>]
Txt(s) == [has |-> TRUE, v |-> s]

\* component.get(key, '') of a text property
GetOr(p) == IF p.has THEN p.v ELSE <<>>

\* ------------------------------------------------------- temporal values
\* The .dt of a DTSTART/DTEND: a date, a naive datetime or an aware datetime
\* (kind "none": the property is absent).  day/min/sec are the wall-clock
\* fields, off the UTC offset of an aware datetime.
NoT == [kind |-> "none", day |-> 0, min |-> 0, sec |-> 0, off |-> 0]
DateV(d) == [kind |-> "date", day |-> d, min |-> 0, sec |-> 0, off |-> 0]
Naive(d, m, s) == [kind |-> "naive", day |-> d, min |-> m, sec |-> s, off |-> 0]
Aware(d, m, s, o) == [kind |-> "aware", day |-> d, min |-> m, sec |-> s, off |-> o]

IsDateTime(t) == t.kind \in {"naive", "aware"}

\* Seconds on the wall clock since day 0, 00:00:00.
WallTicks(t) == (t.day * MinPerDay + t.min) * SecPerMin + t.sec

\* Seconds since the epoch of an aware datetime (UTC = wall clock - offset).
Instant(t) == WallTicks(t) - t.off * SecPerMin

\* tz.localize(naive): the same wall clock, now carrying the zone's offset.
Localize(t, o) == [t EXCEPT !.kind = "aware", !.off = o]

\* datetime.combine(d, datetime.min.time()) and datetime.combine(d, time(23, 59, 59))
CombineMin(t) == Naive(t.day, 0, 0)
CombineEndOfDay(t) == Naive(t.day, MinPerDay - 1, SecPerMin - 1)

\* dt + timedelta(days=n): wall-clock arithmetic, the tzinfo kept.
PlusDays(t, n) == [t EXCEPT !.day = t.day + n]

\* strftime('%Y%m%d%H%M') of a datetime, strftime('%Y%m%d') of a date:
\* the zone and the seconds are not printed.
StrfDate(t) == NatStr(t.day)
StrfDateTime(t) == NatStr(t.day) \o NatStr(t.min)

\* ---------------------------------------------------- generate_event_identifier
\* hashlib.md5(s).hexdigest(): the digest is taken as collision-free and is
\* represented by its preimage under a tag.
Md5Hex(s) == <<"md5:">> \o s

\* A variant that returns the same identifier at every call.
Uuid4Fixed(n) == <<"uuid:">>

\* str(uuid.uuid4()): the n-th identifier drawn.
Uuid4(n) == <<"uuid:">> \o NatStr(n)

\* A variant that hashes the external UID too.
IdStringWithUid(e) ==
    LET date_str == IF IsDateTime(e.dtstart) THEN StrfDateTime(e.dtstart)
                    ELSE StrfDate(e.dtstart)
        end_str == IF e.dtend.kind # "none"
                   THEN IF IsDateTime(e.dtend) THEN StrfDateTime(e.dtend)
                        ELSE StrfDate(e.dtend)
                   ELSE date_str
    IN  date_str \o <<"_">> \o end_str \o <<"_">> \o GetOr(e.summary)
            \o <<"_">> \o GetOr(e.location) \o <<"_">> \o GetOr(e.uid)

\* The string generate_event_identifier hashes (lines 482-508).
IdString(e) ==
    LET date_str == IF IsDateTime(e.dtstart) THEN StrfDateTime(e.dtstart)
                    ELSE StrfDate(e.dtstart)
        end_str == IF e.dtend.kind # "none"
                   THEN IF IsDateTime(e.dtend) THEN StrfDateTime(e.dtend)
                        ELSE StrfDate(e.dtend)
                   ELSE date_str
    IN  date_str \o <<"_">> \o end_str \o <<"_">> \o GetOr(e.summary)
            \o <<"_">> \o GetOr(e.location)

\* generate_event_identifier(event); fresh is what uuid4 would return.
\* event.get('dtstart').dt raises when DTSTART is absent: the fallback is
\* the event's UID, or a random identifier.
GenerateEventIdentifier(e, fresh) ==
    IF e.dtstart.kind = "none"
    THEN IF e.uid.has THEN e.uid.v ELSE fresh
    ELSE Md5Hex(IdString(e))

\* Whether generate_event_identifier draws a uuid4 for the event (line 518).
DrawsUuid(e) == e.dtstart.kind = "none" /\ ~e.uid.has

\* ------------------------------------------------------- get_source_events
\* A variant that reads a date as the last second of that day.
WindowInstantEndOfDay(t, tz) ==
    IF t.kind = "aware" THEN t
    ELSE IF t.kind = "naive" THEN Localize(t, tz)
    ELSE Localize(CombineEndOfDay(t), tz)

\* A start or end of a VEVENT as the window filter reads it (lines 181-205):
\* a naive datetime is localized in the configured zone, a date becomes
\* midnight of that day in the configured zone.
WindowInstant(t, tz) ==
    IF t.kind = "aware" THEN t
    ELSE IF t.kind = "naive" THEN Localize(t, tz)
    ELSE Localize(CombineMin(t), tz)

\* A variant without the third case: an event that begins before the window
\* and ends after it is not in range.
InDateRangeNoSpan(e, start_date, end_date, tz) ==
    LET event_start == Instant(WindowInstant(e.dtstart, tz))
        event_end == IF e.dtend.kind # "none"
                     THEN Instant(WindowInstant(e.dtend, tz))
                     ELSE event_start
        lo == Instant(start_date)
        hi == Instant(end_date)
    IN  \/ (lo <= event_start /\ event_start <= hi)
        \/ (lo <= event_end /\ event_end <= hi)

\* The range test of lines 208-212; start_date and end_date are aware.
InDateRange(e, start_date, end_date, tz) ==
    LET event_start == Instant(WindowInstant(e.dtstart, tz))
        event_end == IF e.dtend.kind # "none"
                     THEN Instant(WindowInstant(e.dtend, tz))
                     ELSE event_start
        lo == Instant(start_date)
        hi == Instant(end_date)
    IN  \/ (lo <= event_start /\ event_start <= hi)
        \/ (lo <= event_end /\ event_end <= hi)
        \/ (event_start <= lo /\ event_end >= hi)

\* component.get("dtstart").dt raises on a VEVENT without DTSTART, and
\* nothing in get_source_events or sync_calendars catches it.
SourceWalkRaises(calendar) ==
    \E k \in 1..Len(calendar) : calendar[k].dtstart.kind = "none"

GetSourceEvents(calendar, start_date, end_date, tz) ==
    SelectSeq(calendar, LAMBDA e : InDateRange(e, start_date, end_date, tz))

\* --------------------------------------------------------- get_dest_events
NormalizedTitle == <<"T">>

\* A variant that does not compare the title.
IsSyncedAnyTitle(r) == r.fp.has

\* The test of lines 232-233: the title is the normalized title and the
\* X-SYNC-SOURCE-IDENTIFIER property is present.
IsSynced(r) == GetOr(r.summary) = NormalizedTitle /\ r.fp.has

GetDestEvents(all_events) == SelectSeq(all_events, IsSynced)

\* A variant that returns the last event with that identifier.
FindSyncedEventLast(events, wanted) ==
    LET hits == {k \in 1..Len(events) : GetOr(events[k].fp) = wanted}
    IN  IF hits = {} THEN 0
        ELSE CHOOSE k \in hits : \A h \in hits : k >= h

\* ------------------------------------------------------- find_synced_event
\* The index of the first event whose identifier property equals the
\* identifier, 0 for None.
FindSyncedEvent(synced_events, identifier) ==
    LET hits == {k \in 1..Len(synced_events) :
                    GetOr(synced_events[k].fp) = identifier}
    IN  IF hits = {} THEN 0
        ELSE CHOOSE k \in hits : \A h \in hits : k <= h

\* --------------------------------------------------- event_details_changed
\* a != b for two datetimes, after the normalisation of lines 277-281: when
\* exactly one is naive it is localized in UTC.
DateTimeDiffers(a, b) ==
    LET a2 == IF a.kind # b.kind /\ a.kind = "naive" THEN Localize(a, 0) ELSE a
        b2 == IF a.kind # b.kind /\ b.kind = "naive" THEN Localize(b, 0) ELSE b
    IN  IF a2.kind = "aware" THEN Instant(a2) # Instant(b2)
        ELSE WallTicks(a2) # WallTicks(b2)

\* A variant that reads a date as midnight of that day before comparing.
ValueDiffersPromoting(a, b) ==
    LET a1 == IF a.kind = "date" THEN CombineMin(a) ELSE a
        b1 == IF b.kind = "date" THEN CombineMin(b) ELSE b
    IN  DateTimeDiffers(a1, b1)

\* Lines 275-288 (and 300-313) for two values that are present.
ValueDiffers(a, b) ==
    IF IsDateTime(a) /\ IsDateTime(b) THEN DateTimeDiffers(a, b)
    ELSE IF a.kind # b.kind THEN TRUE
    ELSE a.day # b.day

\* A variant that compares the values only, when both are present.
TextDiffersBothPresent(a, b) == a.has /\ b.has /\ a.v # b.v

TextDiffers(a, b) ==
    \/ (a.has /\ ~b.has)
    \/ (~a.has /\ b.has)
    \/ (a.has /\ b.has /\ a.v # b.v)

EventDetailsChanged(source_event, synced) ==
    \/ source_event.dtstart.kind = "none"          \* KeyError, line 289
    \/ synced.dtstart.kind = "none"
    \/ ValueDiffers(source_event.dtstart, synced.dtstart)
    \/ IF source_event.dtend.kind # "none" /\ synced.dtend.kind # "none"
       THEN ValueDiffers(source_event.dtend, synced.dtend)
       ELSE source_event.dtend.kind # "none" \/ synced.dtend.kind # "none"
    \/ TextDiffers(source_event.location, synced.location)
    \/ TextDiffers(source_event.description, synced.description)

\* -------------------------------------------------------- is_event_in_past
\* dtend < current_time: comparing a naive with an aware datetime raises
\* TypeError, which line 560 turns into False.
IsEventInPast(r, current_time) ==
    LET raw == IF r.dtend.kind # "none" THEN r.dtend ELSE r.dtstart
        dtend == IF raw.kind = "date"
                 THEN IF current_time.kind = "aware"
                      THEN Localize(CombineEndOfDay(raw), current_time.off)
                      ELSE CombineEndOfDay(raw)
                 ELSE raw
    IN  IF raw.kind = "none" THEN FALSE
        ELSE IF dtend.kind # current_time.kind THEN FALSE
        ELSE IF dtend.kind = "aware" THEN Instant(dtend) < Instant(current_time)
        ELSE WallTicks(dtend) < WallTicks(current_time)

\* -------------------------------------------------- create_or_update_event
\* A variant that keeps the title of the source event.
NewEventSourceTitle(source_event, uid, identifier) ==
    [id |-> uid,
     summary |-> source_event.summary,
     fp |-> Txt(identifier),
     dtstart |-> source_event.dtstart,
     dtend |-> source_event.dtend,
     location |-> source_event.location,
     description |-> source_event.description]

\* A variant that does not copy DESCRIPTION.
NewEventNoDescription(source_event, uid, identifier) ==
    [id |-> uid,
     summary |-> Txt(<<"T">>),
     fp |-> Txt(identifier),
     dtstart |-> source_event.dtstart,
     dtend |-> source_event.dtend,
     location |-> source_event.location,
     description |-> [has |-> FALSE, v |-> <<>>]]

\* The VEVENT built in lines 342-363: the four copied properties, the
\* normalized title, the given UID and the identifier property.
NewEvent(source_event, uid, identifier) ==
    [id |-> uid,
     summary |-> Txt(NormalizedTitle),
     fp |-> Txt(identifier),
     dtstart |-> source_event.dtstart,
     dtend |-> source_event.dtend,
     location |-> source_event.location,
     description |-> source_event.description]

\* ================================================================ the state
VARIABLES
    feed,             \* the VEVENTs of the source calendar, in feed order
    store,            \* the records of the destination calendar, in store order
    clock,            \* the wall clock, an aware datetime in config['timezone']
    uuids,            \* how many uuid4 identifiers have been drawn
    passes,           \* how many times sync_calendars has been called
    faults,           \* how many collaborator calls have failed
    pc,               \* where the running pass stands
    now,              \* sync_calendars: now (line 406)
    source_calendar,  \* sync_calendars: source_calendar, the feed as fetched
    source_events,    \* sync_calendars: source_events (line 410)
    dest_events,      \* sync_calendars: dest_events, the caldav Event objects
    processed,        \* sync_calendars: processed_source_identifiers
    todo,             \* position of the running loop in its list
    removed_count,    \* sync_calendars: removed_count
    preserved_count,  \* sync_calendars: preserved_count
    result,           \* what sync_calendars returned: "none" while it runs
    log,              \* the calls and decisions of the running pass, in order
    prev,             \* the pass before: its log, now, feed and result
    store0,           \* the destination as it was before the first pass
    evA, evB,         \* two VEVENTs handed to generate_event_identifier
    idA, idB,         \* their identifiers, <<>> until computed
    synced_event,     \* a record handed to event_details_changed and is_event_in_past
    in_range,         \* whether get_source_events kept evA: "none" until called
    changed,          \* event_details_changed(evA, synced_event): "none" until called
    in_past,          \* is_event_in_past(synced_event, clock): "none" until called
    outcome,          \* the destination a pass left, kept when the pass is run
                      \* again from the same destination in another order
    rival,            \* a second invocation of sync_calendars on the same feed
                      \* and destination: its position and its local variables
    calendars,        \* get_calendar_by_name: what principal.calendars() returns
    calendar_name,    \* get_calendar_by_name: the requested name
    dest_calendar,    \* its result: -1 until called, 0 for None, else the
                      \* position of the returned calendar in calendars
    synced_events,    \* find_synced_event: the list it is given
    source_event_identifier,  \* find_synced_event: the identifier it is given
    found             \* its result: -1 until called, 0 for None, else the
                      \* position of the returned event in synced_events

vars == <<feed, store, clock, uuids, passes, faults, pc, now, source_calendar,
          source_events, dest_events, processed, todo, removed_count, preserved_count,
          result, log, prev, store0, evA, evB, idA, idB, synced_event, in_range,
          changed, in_past, outcome, rival, calendars, calendar_name,
          dest_calendar, synced_events, source_event_identifier, found>>

passVars == <<now, source_calendar, source_events, dest_events, processed, todo,
              removed_count, preserved_count>>
fpVars == <<evA, evB, idA, idB>>
fnVars == <<synced_event, in_range, changed, in_past>>
calVars == <<calendars, calendar_name, dest_calendar>>
findVars == <<synced_events, source_event_identifier, found>>

\* ------------------------------------------------------------ the inputs
UidOne == Txt(<<"u", "1">>)
UidTwo == Txt(<<"u", "2">>)

SrcEvent(uid, s, e, title, loc, desc) ==
    [uid |-> uid, dtstart |-> s, dtend |-> e, summary |-> title,
     location |-> loc, description |-> desc]

\* The clock readings a pass may take: today at 00:01:00 and at 00:01:01.
Clocks == {Aware(1, 1, 0, TzOff), Aware(1, 1, 1, TzOff)}

\* VEVENTs a feed is drawn from, in the order a feed lists them.
EvAware == SrcEvent(UidOne, Aware(1, 1, 1, TzOff), Aware(2, 0, 0, TzOff),
                    Txt(<<"a">>), Absent, Absent)
EvAwareX == [EvAware EXCEPT !.description = Txt(<<"x">>)]
EvNaive == SrcEvent(UidOne, Naive(2, 0, 0), NoT, Txt(<<"n">>), Txt(<<"r">>), Absent)
EvAllDay == SrcEvent(UidOne, DateV(2), DateV(3), Txt(<<"d">>), Absent, Absent)
EvOld == SrcEvent(UidOne, Aware(0, 0, 0, TzOff), Aware(0, 1, 0, TzOff),
                  Txt(<<"o">>), Absent, Absent)
EvNoStart == SrcEvent(UidOne, NoT, NoT, Txt(<<"b">>), Absent, Absent)

FeedUniverse == <<EvAware, EvAwareX, EvNaive, EvAllDay, EvOld, EvNoStart>>

\* VEVENTs that are in no feed and left records behind.
EvGone == SrcEvent(UidOne, Aware(2, 0, 0, 0), Aware(2, 1, 0, 0),
                   Txt(<<"g">>), Absent, Absent)
EvOldNaive == SrcEvent(UidOne, Naive(0, 0, 0), Naive(0, 1, 0),
                       Txt(<<"p">>), Absent, Absent)
EvOldDay == SrcEvent(UidOne, DateV(0), NoT, Txt(<<"q">>), Absent, Absent)

\* The record a pass leaves for a VEVENT (its id is set when it is stored).
RecordOf(e) == NewEvent(e, 0, GenerateEventIdentifier(e, <<>>))

\* Records a destination is drawn from before the first pass: records of
\* earlier passes, a record whose identifier property is empty, records
\* that are not sync-managed (another title, or no identifier property),
\* and a record without DTSTART and DTEND.
StoreUniverse ==
    <<RecordOf(EvAware), RecordOf(EvAwareX), RecordOf(EvGone), RecordOf(EvOld),
      RecordOf(EvOldNaive), RecordOf(EvOldDay),
      [RecordOf(EvGone) EXCEPT !.fp = Txt(<<>>)],
      [RecordOf(EvGone) EXCEPT !.summary = Txt(<<"m">>)],
      [RecordOf(EvGone) EXCEPT !.fp = Absent],
      [RecordOf(EvGone) EXCEPT !.dtstart = NoT, !.dtend = NoT,
                               !.fp = Txt(<<"t">>)]>>

\* The subsequences of u with at most n elements.
RECURSIVE SubSeqs(_, _, _)
SubSeqs(u, from, n) ==
    IF n = 0 \/ from > Len(u) THEN {<<>>}
    ELSE SubSeqs(u, from + 1, n)
         \cup {<<u[from]>> \o t : t \in SubSeqs(u, from + 1, n - 1)}

\* Store order numbers the records: the k-th record has id k.
Numbered(rs) == [k \in 1..Len(rs) |-> [rs[k] EXCEPT !.id = k]]

NoPrev == [log |-> <<>>, now |-> NoT, feed |-> <<>>, result |-> "none"]

NoOutcome == [set |-> FALSE, store |-> <<>>]

\* The second invocation before it is started.
NoRival == [pc |-> "idle", source_events |-> <<>>, dest_events |-> <<>>,
            processed |-> {}, todo |-> 0, result |-> "none", log |-> <<>>,
            overlapped |-> FALSE]

\* The smaller choice of VEVENTs and records for runs of several passes.
RepeatFeedUniverse == <<EvAware, EvAwareX, EvNaive, EvOld>>
RepeatStoreUniverse ==
    <<RecordOf(EvAwareX), RecordOf(EvGone),
      [RecordOf(EvGone) EXCEPT !.summary = Txt(<<"m">>)],
      [RecordOf(EvGone) EXCEPT !.fp = Absent]>>

\* ----------------------------------------------------------------- Init
InitFrom(feeds, stores) ==
    /\ feed \in feeds
    /\ \E rs \in stores :
          /\ store = Numbered(rs)
          /\ store0 = Numbered(rs)
          /\ uuids = Len(rs)
    /\ clock = Aware(1, 1, 0, TzOff)
    /\ passes = 0
    /\ faults = 0
    /\ pc = "idle"
    /\ now = NoT
    /\ source_calendar = <<>>
    /\ source_events = <<>>
    /\ dest_events = <<>>
    /\ processed = {}
    /\ todo = 0
    /\ removed_count = 0
    /\ preserved_count = 0
    /\ result = "none"
    /\ log = <<>>
    /\ prev = NoPrev
    /\ outcome = NoOutcome
    /\ rival = NoRival

\* generate_event_identifier is called by the pass only.
NoFp == evA = EvAware /\ evB = EvAware /\ idA = <<>> /\ idB = <<>>

\* get_source_events, event_details_changed and is_event_in_past are called
\* by the pass only.
NoFn ==
    /\ synced_event = RecordOf(EvAware)
    /\ in_range = "none" /\ changed = "none" /\ in_past = "none"

\* get_calendar_by_name and find_synced_event are not called on their own.
NoCal == calendars = <<>> /\ calendar_name = Absent /\ dest_calendar = -1

NoFind ==
    synced_events = <<>> /\ source_event_identifier = <<>> /\ found = -1

Init ==
    /\ InitFrom(SubSeqs(FeedUniverse, 1, MaxFeed),
                SubSeqs(StoreUniverse, 1, MaxStore))
    /\ NoFp /\ NoFn /\ NoCal /\ NoFind

InitRepeat ==
    /\ InitFrom(SubSeqs(RepeatFeedUniverse, 1, MaxFeed),
                SubSeqs(RepeatStoreUniverse, 1, MaxStore))
    /\ NoFp /\ NoFn /\ NoCal /\ NoFind

\* One collaborator call in the log.
Call(op, id, fp, ok) == [op |-> op, id |-> id, fp |-> fp, ok |-> ok]

\* A call to a collaborator (the CalDAV server, the feed's host) succeeds or
\* raises; ok is its outcome.
Outcome(ok) ==
    /\ ok \in BOOLEAN
    /\ ~ok => faults < MaxFaults
    /\ faults' = IF ok THEN faults ELSE faults + 1

\* sync_calendars returns (or raises): the pass is over.
Finish(r) == pc' = "idle" /\ result' = r

\* --------------------------------------------------------------- actions
\* Lines 386-396: a pass begins by connecting to the destination.
Begin ==
    /\ pc = "idle"
    /\ passes' = passes + 1
    /\ prev' = IF passes = 0 THEN NoPrev
               ELSE [log |-> log, now |-> now, feed |-> source_calendar,
                     result |-> result]
    /\ now' = NoT /\ source_calendar' = <<>> /\ source_events' = <<>>
    /\ dest_events' = <<>> /\ processed' = {} /\ todo' = 0
    /\ removed_count' = 0 /\ preserved_count' = 0
    /\ \E ok \in BOOLEAN :
          /\ Outcome(ok)
          /\ log' = <<Call("connect", 0, <<>>, ok)>>
          /\ IF ok THEN pc' = "fetch" /\ result' = "none"
             ELSE Finish("false")
    /\ UNCHANGED <<feed, store, clock, uuids, store0, fpVars, fnVars,
                   outcome, rival, calVars, findVars>>

\* The first call of sync_calendars, and a later one.
Connect == passes = 0 /\ Begin
Reconnect == 0 < passes /\ passes < MaxPasses /\ Begin

\* A variant without the test of line 401: the pass goes on after a failed
\* fetch, with an empty calendar.
FetchUnchecked ==
    /\ pc = "fetch"
    /\ \E ok \in BOOLEAN :
          /\ Outcome(ok)
          /\ log' = Append(log, Call("fetch", 0, <<>>, ok))
          /\ source_calendar' = IF ok THEN feed ELSE <<>>
          /\ pc' = "window"
          /\ UNCHANGED result
    /\ UNCHANGED <<feed, store, clock, uuids, passes, now, source_events,
                   dest_events, processed, todo, removed_count,
                   preserved_count, prev, store0, fpVars, fnVars,
                   outcome, rival, calVars, findVars>>

\* Lines 398-403: fetch and parse the source calendar.
Fetch ==
    /\ pc = "fetch"
    /\ \E ok \in BOOLEAN :
          /\ Outcome(ok)
          /\ log' = Append(log, Call("fetch", 0, <<>>, ok))
          /\ IF ok THEN source_calendar' = feed /\ pc' = "window"
                        /\ UNCHANGED result
             ELSE UNCHANGED source_calendar /\ Finish("false")
    /\ UNCHANGED <<feed, store, clock, uuids, passes, now, source_events,
                   dest_events, processed, todo, removed_count,
                   preserved_count, prev, store0, fpVars, fnVars,
                   outcome, rival, calVars, findVars>>

\* Lines 405-411: read the clock and filter the feed by the window.  A
\* VEVENT without DTSTART makes get_source_events raise out of the pass.
Window ==
    /\ pc = "window"
    /\ now' = clock
    /\ IF SourceWalkRaises(source_calendar)
       THEN UNCHANGED source_events /\ Finish("raised")
       ELSE /\ source_events' = GetSourceEvents(source_calendar, clock,
                                    PlusDays(clock, DaysAhead), TzOff)
            /\ pc' = "list"
            /\ UNCHANGED result
    /\ UNCHANGED <<feed, store, clock, uuids, passes, faults, source_calendar,
                   dest_events, processed, todo, removed_count,
                   preserved_count, log, prev, store0, fpVars, fnVars,
                   outcome, rival, calVars, findVars>>

\* A variant in which a failed listing ends the pass with False.
ListChecked ==
    /\ pc = "list"
    /\ \E ok \in BOOLEAN :
          /\ Outcome(ok)
          /\ dest_events' = IF ok THEN GetDestEvents(store) ELSE <<>>
          /\ log' = Append(log, Call("list", 0, <<>>, ok))
          /\ IF ok THEN pc' = "upsert" /\ UNCHANGED result
             ELSE Finish("false")
    /\ processed' = {}
    /\ todo' = 1
    /\ UNCHANGED <<feed, store, clock, uuids, passes, now, source_calendar,
                   source_events, removed_count, preserved_count,
                   prev, store0, fpVars, fnVars, outcome, rival, calVars, findVars>>

\* Lines 413-418: list the synced events; a failure of events() gives [].
List ==
    /\ pc = "list"
    /\ \E ok \in BOOLEAN :
          /\ Outcome(ok)
          /\ dest_events' = IF ok THEN GetDestEvents(store) ELSE <<>>
          /\ log' = Append(log, Call("list", 0, <<>>, ok))
    /\ processed' = {}
    /\ pc' = "upsert" /\ todo' = 1
    /\ UNCHANGED <<feed, store, clock, uuids, passes, now, source_calendar,
                   source_events, removed_count, preserved_count, result,
                   prev, store0, fpVars, fnVars, outcome, rival, calVars, findVars>>

\* A variant that stores the saved data as one more record.
SavedAsNew(st, r) == Append(st, r)

\* The store with the record of r's id replaced by r (existing_event.save()).
Saved(st, r) == [k \in 1..Len(st) |-> IF st[k].id = r.id THEN r ELSE st[k]]

\* The store without the record of that id (dest_event.delete()).
Deleted(st, id) == SelectSeq(st, LAMBDA r : r.id # id)

\* A variant that saves every matched event without asking the change
\* detector.
UpsertUnconditional ==
    /\ pc = "upsert" /\ todo <= Len(source_events)
    /\ LET source_event == source_events[todo]
           source_identifier ==
               GenerateEventIdentifier(source_event, Uuid4(uuids + 1))
           k == FindSyncedEvent(dest_events, source_identifier)
           n == IF DrawsUuid(source_event) THEN uuids + 1 ELSE uuids
       IN  /\ processed' = processed \cup {source_identifier}
           /\ IF k # 0
              THEN LET new == NewEvent(source_event, dest_events[k].id,
                                       source_identifier)
                   IN  /\ dest_events' = [dest_events EXCEPT ![k] = new]
                       /\ uuids' = n
                       /\ \E ok \in BOOLEAN :
                             /\ Outcome(ok)
                             /\ store' = IF ok THEN Saved(store, new) ELSE store
                             /\ log' = log \o
                                    <<Call("lookup", new.id, source_identifier, TRUE),
                                      Call("update", new.id, source_identifier, ok)>>
              ELSE LET new == NewEvent(source_event, n + 1, source_identifier)
                   IN  /\ uuids' = n + 1
                       /\ UNCHANGED dest_events
                       /\ \E ok \in BOOLEAN :
                             /\ Outcome(ok)
                             /\ store' = IF ok THEN Append(store, new) ELSE store
                             /\ log' = log \o
                                    <<Call("lookup", 0, source_identifier, TRUE),
                                      Call("create", new.id, source_identifier, ok)>>
    /\ todo' = todo + 1
    /\ UNCHANGED <<feed, clock, passes, pc, now, source_calendar, source_events,
                   removed_count, preserved_count, result, prev, store0, fpVars, fnVars,
                   outcome, rival, calVars, findVars>>

\* A variant without the try of lines 337-381: a failed save ends the pass.
UpsertUncaught ==
    /\ pc = "upsert" /\ todo <= Len(source_events)
    /\ LET source_event == source_events[todo]
           source_identifier ==
               GenerateEventIdentifier(source_event, Uuid4(uuids + 1))
           k == FindSyncedEvent(dest_events, source_identifier)
           n == IF DrawsUuid(source_event) THEN uuids + 1 ELSE uuids
       IN  /\ processed' = processed \cup {source_identifier}
           /\ IF k # 0
              THEN IF EventDetailsChanged(source_event, dest_events[k])
                   THEN LET new == NewEvent(source_event, dest_events[k].id,
                                            source_identifier)
                        IN  /\ dest_events' = [dest_events EXCEPT ![k] = new]
                            /\ uuids' = n
                            /\ \E ok \in BOOLEAN :
                                  /\ Outcome(ok)
                                  /\ store' = IF ok THEN Saved(store, new) ELSE store
                                  /\ log' = log \o
                                         <<Call("lookup", new.id, source_identifier, TRUE),
                                           Call("changed", new.id, source_identifier, TRUE),
                                           Call("update", new.id, source_identifier, ok)>>
                                  /\ IF ok THEN UNCHANGED <<pc, result>>
                                     ELSE Finish("raised")
                   ELSE /\ log' = log \o
                               <<Call("lookup", dest_events[k].id, source_identifier, TRUE),
                                 Call("unchanged", dest_events[k].id,
                                      source_identifier, TRUE),
                                 Call("keep", dest_events[k].id, source_identifier, TRUE)>>
                        /\ uuids' = n
                        /\ UNCHANGED <<store, dest_events, faults, pc, result>>
              ELSE LET new == NewEvent(source_event, n + 1, source_identifier)
                   IN  /\ uuids' = n + 1
                       /\ UNCHANGED dest_events
                       /\ \E ok \in BOOLEAN :
                             /\ Outcome(ok)
                             /\ store' = IF ok THEN Append(store, new) ELSE store
                             /\ log' = log \o
                                    <<Call("lookup", 0, source_identifier, TRUE),
                                      Call("create", new.id, source_identifier, ok)>>
                             /\ IF ok THEN UNCHANGED <<pc, result>>
                                ELSE Finish("raised")
    /\ todo' = todo + 1
    /\ UNCHANGED <<feed, clock, passes, now, source_calendar, source_events,
                   removed_count, preserved_count, prev, store0, fpVars, fnVars,
                   outcome, rival, calVars, findVars>>

\* Lines 421-440: one turn of the loop over source_events.  The log gets the
\* lookup with the id it found (0 for None), the answer of the change
\* detector when it ran, and the decision.
Upsert ==
    /\ pc = "upsert" /\ todo <= Len(source_events)
    /\ LET source_event == source_events[todo]
           source_identifier ==
               GenerateEventIdentifier(source_event, Uuid4(uuids + 1))
           k == FindSyncedEvent(dest_events, source_identifier)
           n == IF DrawsUuid(source_event) THEN uuids + 1 ELSE uuids
       IN  /\ processed' = processed \cup {source_identifier}
           /\ IF k # 0
              THEN IF EventDetailsChanged(source_event, dest_events[k])
                   THEN \* update: the Event object gets the new data, then save()
                        LET new == NewEvent(source_event, dest_events[k].id,
                                            source_identifier)
                        IN  /\ dest_events' = [dest_events EXCEPT ![k] = new]
                            /\ uuids' = n
                            /\ \E ok \in BOOLEAN :
                                  /\ Outcome(ok)
                                  /\ store' = IF ok THEN Saved(store, new) ELSE store
                                  /\ log' = log \o
                                         <<Call("lookup", new.id, source_identifier, TRUE),
                                           Call("changed", new.id, source_identifier, TRUE),
                                           Call("update", new.id, source_identifier, ok)>>
                   ELSE /\ log' = log \o
                               <<Call("lookup", dest_events[k].id, source_identifier, TRUE),
                                 Call("unchanged", dest_events[k].id,
                                      source_identifier, TRUE),
                                 Call("keep", dest_events[k].id, source_identifier, TRUE)>>
                        /\ uuids' = n
                        /\ UNCHANGED <<store, dest_events, faults>>
              ELSE \* create: a new UID, then save_event()
                   LET new == NewEvent(source_event, n + 1, source_identifier)
                   IN  /\ uuids' = n + 1
                       /\ UNCHANGED dest_events
                       /\ \E ok \in BOOLEAN :
                             /\ Outcome(ok)
                             /\ store' = IF ok THEN Append(store, new) ELSE store
                             /\ log' = log \o
                                    <<Call("lookup", 0, source_identifier, TRUE),
                                      Call("create", new.id, source_identifier, ok)>>
    /\ todo' = todo + 1
    /\ UNCHANGED <<feed, clock, passes, pc, now, source_calendar, source_events,
                   removed_count, preserved_count, result, prev, store0, fpVars, fnVars,
                   outcome, rival, calVars, findVars>>

\* A variant that lists the synced events again before the orphan loop.
UpsertDoneRelisting ==
    /\ pc = "upsert" /\ todo > Len(source_events)
    /\ pc' = "orphan" /\ todo' = 1
    /\ removed_count' = 0 /\ preserved_count' = 0
    /\ dest_events' = GetDestEvents(store)
    /\ log' = Append(log, Call("list", 0, <<>>, TRUE))
    /\ UNCHANGED <<feed, store, clock, uuids, passes, faults, now, source_calendar,
                   source_events, processed, result, prev,
                   store0, fpVars, fnVars, outcome, rival, calVars, findVars>>

\* Lines 442-444: the loop over source_events is over.
UpsertDone ==
    /\ pc = "upsert" /\ todo > Len(source_events)
    /\ pc' = "orphan" /\ todo' = 1
    /\ removed_count' = 0 /\ preserved_count' = 0
    /\ UNCHANGED <<feed, store, clock, uuids, passes, faults, now, source_calendar,
                   source_events, dest_events, processed, result, log, prev,
                   store0, fpVars, fnVars, outcome, rival, calVars, findVars>>

\* A variant that does not look the identifier up in the processed set.
IsOrphanUnchecked(dest_event, done) == GetOr(dest_event.fp) # <<>>

\* The test of line 451: the identifier is not empty and no source event of
\* this pass produced it.
IsOrphan(dest_event, done) ==
    GetOr(dest_event.fp) # <<>> /\ GetOr(dest_event.fp) \notin done

\* A variant without the try of line 459: a failed delete ends the pass.
OrphanUncaught ==
    /\ pc = "orphan" /\ todo <= Len(dest_events)
    /\ LET dest_event == dest_events[todo]
           source_identifier == GetOr(dest_event.fp)
       IN  IF IsOrphan(dest_event, processed)
           THEN IF IsEventInPast(dest_event, now)
                THEN /\ preserved_count' = preserved_count + 1
                     /\ log' = Append(log, Call("preserve", dest_event.id,
                                                source_identifier, TRUE))
                     /\ UNCHANGED <<store, removed_count, faults, pc, result>>
                ELSE \E ok \in BOOLEAN :
                        /\ Outcome(ok)
                        /\ store' = IF ok THEN Deleted(store, dest_event.id)
                                    ELSE store
                        /\ removed_count' = IF ok THEN removed_count + 1
                                            ELSE removed_count
                        /\ log' = Append(log, Call("delete", dest_event.id,
                                                   source_identifier, ok))
                        /\ IF ok THEN UNCHANGED <<pc, result>>
                           ELSE Finish("raised")
                        /\ UNCHANGED preserved_count
           ELSE UNCHANGED <<store, removed_count, preserved_count, log, faults,
                            pc, result>>
    /\ todo' = todo + 1
    /\ UNCHANGED <<feed, clock, uuids, passes, now, source_calendar,
                   source_events, dest_events, processed, prev,
                   store0, fpVars, fnVars, outcome, rival, calVars, findVars>>

\* A variant that keeps the records the lookups returned, and not the
\* records whose identifier a source event produced.
OrphanUnmatched ==
    /\ pc = "orphan" /\ todo <= Len(dest_events)
    /\ LET dest_event == dest_events[todo]
           source_identifier == GetOr(dest_event.fp)
           matched == \E k \in DOMAIN log :
                         log[k].op = "lookup" /\ log[k].id = dest_event.id
       IN  IF source_identifier # <<>> /\ ~matched
           THEN IF IsEventInPast(dest_event, now)
                THEN /\ preserved_count' = preserved_count + 1
                     /\ log' = Append(log, Call("preserve", dest_event.id,
                                                source_identifier, TRUE))
                     /\ UNCHANGED <<store, removed_count, faults>>
                ELSE \E ok \in BOOLEAN :
                        /\ Outcome(ok)
                        /\ store' = IF ok THEN Deleted(store, dest_event.id)
                                    ELSE store
                        /\ removed_count' = IF ok THEN removed_count + 1
                                            ELSE removed_count
                        /\ log' = Append(log, Call("delete", dest_event.id,
                                                   source_identifier, ok))
                        /\ UNCHANGED preserved_count
           ELSE UNCHANGED <<store, removed_count, preserved_count, log, faults>>
    /\ todo' = todo + 1
    /\ UNCHANGED <<feed, clock, uuids, passes, pc, now, source_calendar,
                   source_events, dest_events, processed, result, prev,
                   store0, fpVars, fnVars, outcome, rival, calVars, findVars>>

\* Lines 446-464: one turn of the loop over dest_events.  The delete of a
\* record that is no longer stored raises, like a rejected delete.
Orphan ==
    /\ pc = "orphan" /\ todo <= Len(dest_events)
    /\ LET dest_event == dest_events[todo]
           source_identifier == GetOr(dest_event.fp)
       IN  IF IsOrphan(dest_event, processed)
           THEN IF IsEventInPast(dest_event, now)
                THEN /\ preserved_count' = preserved_count + 1
                     /\ log' = Append(log, Call("preserve", dest_event.id,
                                                source_identifier, TRUE))
                     /\ UNCHANGED <<store, removed_count, faults>>
                ELSE \E ok \in BOOLEAN :
                        /\ IF \E i \in DOMAIN store : store[i].id = dest_event.id
                           THEN Outcome(ok)
                           ELSE ~ok /\ UNCHANGED faults
                        /\ store' = IF ok THEN Deleted(store, dest_event.id)
                                    ELSE store
                        /\ removed_count' = IF ok THEN removed_count + 1
                                            ELSE removed_count
                        /\ log' = Append(log, Call("delete", dest_event.id,
                                                   source_identifier, ok))
                        /\ UNCHANGED preserved_count
           ELSE UNCHANGED <<store, removed_count, preserved_count, log, faults>>
    /\ todo' = todo + 1
    /\ UNCHANGED <<feed, clock, uuids, passes, pc, now, source_calendar,
                   source_events, dest_events, processed, result, prev,
                   store0, fpVars, fnVars, outcome, rival, calVars, findVars>>

\* Lines 466-472: the loop over dest_events is over; the pass returns True.
Return ==
    /\ pc = "orphan" /\ todo > Len(dest_events)
    /\ Finish("true")
    /\ UNCHANGED <<feed, store, clock, uuids, passes, faults, now, source_calendar,
                   source_events, dest_events, processed, todo, removed_count,
                   preserved_count, log, prev, store0, fpVars, fnVars,
                   outcome, rival, calVars, findVars>>

\* After a pass a VEVENT of the feed it fetched is deleted upstream and
\* recreated with the same content under a new UID.
Recreate ==
    /\ pc = "idle" /\ 0 < passes /\ passes < MaxPasses
    /\ result = "true" /\ feed = source_calendar
    /\ \E k \in 1..Len(feed) :
          /\ feed[k].uid = UidOne
          /\ feed' = [feed EXCEPT ![k].uid = UidTwo]
    /\ UNCHANGED <<store, clock, uuids, passes, faults, pc, passVars, result, log,
                   prev, store0, fpVars, fnVars, outcome, rival, calVars, findVars>>

\* Between two passes time goes by.
Tick ==
    /\ pc = "idle" /\ 0 < passes /\ passes < MaxPasses
    /\ \E c \in Clocks : Instant(c) > Instant(clock) /\ clock' = c
    /\ UNCHANGED <<feed, store, uuids, passes, faults, pc, passVars, result, log,
                   prev, store0, fpVars, fnVars, outcome, rival, calVars, findVars>>

\* One pass over any feed and any destination.
Next ==
    \/ Connect \/ Fetch \/ Window \/ List \/ Upsert \/ UpsertDone
    \/ Orphan \/ Return

Spec == Init /\ [][Next]_vars

\* Successive passes, the feed and the clock changing between them.
NextRepeat == Next \/ Reconnect \/ Recreate \/ Tick

SpecRepeat == InitRepeat /\ [][NextRepeat]_vars

\* ------------------------------------------------- passes as time goes by
\* An all-day VEVENT of today: DTSTART today, DTEND (exclusive) tomorrow.
EvToday == SrcEvent(UidOne, DateV(1), DateV(2), Txt(<<"e">>), Absent, Absent)

\* A feed that stays as it is while the clock moves on, over a destination
\* that is empty before the first pass.
AgingFeedUniverse == <<EvAware, EvNaive, EvToday>>

\* Later readings of the clock: today 00:01:01 and tomorrow 00:00:01.
AgingClocks == {Aware(1, 1, 1, TzOff), Aware(2, 0, 1, TzOff)}

InitAging ==
    /\ InitFrom(SubSeqs(AgingFeedUniverse, 1, MaxFeed), {<<>>})
    /\ NoFp /\ NoFn /\ NoCal /\ NoFind

\* Between two passes the clock moves to a later reading.
Age ==
    /\ pc = "idle" /\ 0 < passes /\ passes < MaxPasses
    /\ \E c \in AgingClocks : Instant(c) > Instant(clock) /\ clock' = c
    /\ UNCHANGED <<feed, store, uuids, passes, faults, pc, passVars, result, log,
                   prev, store0, fpVars, fnVars, outcome, rival, calVars, findVars>>

NextAging == Next \/ Reconnect \/ Age

SpecAging == InitAging /\ [][NextAging]_vars

\* ------------------------------------ one pass over a feed that was rewritten
\* The event of EvGone as the feed gives it once its times are written
\* without a zone.
EvGoneNaive == SrcEvent(UidOne, Naive(2, 0, 0), Naive(2, 1, 0),
                        Txt(<<"g">>), Absent, Absent)

ConvergeFeedUniverse == <<EvAware, EvAwareX, EvNaive, EvAllDay, EvGoneNaive>>
ConvergeStoreUniverse ==
    <<RecordOf(EvAware), RecordOf(EvAwareX), RecordOf(EvGone), RecordOf(EvOld)>>

InitConverge ==
    /\ InitFrom(SubSeqs(ConvergeFeedUniverse, 1, MaxFeed),
                SubSeqs(ConvergeStoreUniverse, 1, MaxStore))
    /\ NoFp /\ NoFn /\ NoCal /\ NoFind

SpecConverge == InitConverge /\ [][Next]_vars

\* ------------------------------------- one pass under two orders of its inputs
\* The orders in which a collaborator may return the elements of s.
Reorderings(s) ==
    {[i \in 1..Len(s) |-> s[f[i]]] : f \in Permutations(1..Len(s))}

\* Feeds with and without two events of one identifier, destinations with
\* and without two records of one identifier.
OrderFeedUniverse == <<EvAware, EvAwareX, EvNaive>>
OrderStoreUniverse == <<RecordOf(EvAware), RecordOf(EvAwareX), RecordOf(EvGone)>>

InitOrder ==
    /\ InitFrom(SubSeqs(OrderFeedUniverse, 1, MaxFeed),
                SubSeqs(OrderStoreUniverse, 1, MaxStore))
    /\ NoFp /\ NoFn /\ NoCal /\ NoFind

\* After the first pass the destination is put back to what it held before,
\* and the feed and the destination return their elements in another order;
\* what the first pass left is kept for comparison.
Reorder ==
    /\ pc = "idle" /\ passes = 1 /\ passes < MaxPasses
    /\ result = "true" /\ ~outcome.set
    /\ outcome' = [set |-> TRUE, store |-> store]
    /\ feed' \in Reorderings(feed)
    /\ store' \in Reorderings(store0)
    /\ UNCHANGED <<clock, uuids, passes, faults, pc, passVars, result, log, prev,
                   store0, fpVars, fnVars, rival, calVars, findVars>>

NextOrder == Next \/ Reconnect \/ Reorder

SpecOrder == InitOrder /\ [][NextOrder]_vars

\* --------------------------------------- two invocations on one destination
\* Nothing in sync_calendars or main keeps a second invocation (another cron
\* run, another host) from running while the first one is between two of its
\* calls.  The second invocation runs the same code on the same feed and the
\* same destination at the same wall clock; its local variables are the
\* fields of rival, its calls are in rival.log, and rival.overlapped says
\* whether the first invocation was running at one of its steps.
ConcurrentFeedUniverse == <<EvAware, EvAwareX, EvNaive>>
ConcurrentStoreUniverse == <<RecordOf(EvAware), RecordOf(EvGone)>>

InitConcurrent ==
    /\ InitFrom(SubSeqs(ConcurrentFeedUniverse, 1, MaxFeed),
                SubSeqs(ConcurrentStoreUniverse, 1, MaxStore))
    /\ NoFp /\ NoFn /\ NoCal /\ NoFind

mainVars == <<feed, clock, passes, pc, passVars, result, log, prev, store0,
              fpVars, fnVars, outcome, calVars, findVars>>

\* The first invocation is between two of its calls now, or was at an
\* earlier step of the second.
Overlapping == rival.overlapped \/ pc # "idle"

\* Lines 386-410: connect, fetch and filter; none of them touches the
\* destination's records.
RivalStart ==
    /\ rival.pc = "idle" /\ passes > 0
    /\ \E ok \in BOOLEAN :
          /\ Outcome(ok)
          /\ rival' =
               IF ~ok
               THEN [rival EXCEPT !.pc = "done", !.result = "false",
                                  !.log = <<Call("connect", 0, <<>>, FALSE)>>,
                                  !.overlapped = Overlapping]
               ELSE IF SourceWalkRaises(feed)
               THEN [rival EXCEPT !.pc = "done", !.result = "raised",
                                  !.log = <<Call("connect", 0, <<>>, TRUE),
                                            Call("fetch", 0, <<>>, TRUE)>>,
                                  !.overlapped = Overlapping]
               ELSE [rival EXCEPT !.pc = "list",
                                  !.source_events =
                                      GetSourceEvents(feed, clock,
                                          PlusDays(clock, DaysAhead), TzOff),
                                  !.log = <<Call("connect", 0, <<>>, TRUE),
                                            Call("fetch", 0, <<>>, TRUE)>>,
                                  !.overlapped = Overlapping]
    /\ UNCHANGED <<store, uuids, mainVars>>

\* Lines 413-418 in the second invocation.
RivalList ==
    /\ rival.pc = "list"
    /\ \E ok \in BOOLEAN :
          /\ Outcome(ok)
          /\ rival' = [rival EXCEPT
                 !.pc = "upsert", !.todo = 1, !.processed = {},
                 !.dest_events = IF ok THEN GetDestEvents(store) ELSE <<>>,
                 !.log = Append(rival.log, Call("list", 0, <<>>, ok)),
                 !.overlapped = Overlapping]
    /\ UNCHANGED <<store, uuids, mainVars>>

\* Lines 421-440 in the second invocation: one turn of the loop over
\* source_events.
RivalUpsert ==
    /\ rival.pc = "upsert" /\ rival.todo <= Len(rival.source_events)
    /\ LET source_event == rival.source_events[rival.todo]
           source_identifier ==
               GenerateEventIdentifier(source_event, Uuid4(uuids + 1))
           k == FindSyncedEvent(rival.dest_events, source_identifier)
           n == IF DrawsUuid(source_event) THEN uuids + 1 ELSE uuids
           step == [rival EXCEPT
                       !.todo = rival.todo + 1,
                       !.processed = rival.processed \cup {source_identifier},
                       !.overlapped = Overlapping]
       IN  IF k # 0
           THEN IF EventDetailsChanged(source_event, rival.dest_events[k])
                THEN LET new == NewEvent(source_event, rival.dest_events[k].id,
                                         source_identifier)
                     IN  /\ uuids' = n
                         /\ \E ok \in BOOLEAN :
                               /\ Outcome(ok)
                               /\ store' = IF ok THEN Saved(store, new) ELSE store
                               /\ rival' = [step EXCEPT
                                     !.dest_events[k] = new,
                                     !.log = rival.log \o
                                        <<Call("lookup", new.id, source_identifier, TRUE),
                                          Call("changed", new.id, source_identifier, TRUE),
                                          Call("update", new.id, source_identifier, ok)>>]
                ELSE /\ rival' = [step EXCEPT
                           !.log = rival.log \o
                              <<Call("lookup", rival.dest_events[k].id,
                                     source_identifier, TRUE),
                                Call("unchanged", rival.dest_events[k].id,
                                     source_identifier, TRUE),
                                Call("keep", rival.dest_events[k].id,
                                     source_identifier, TRUE)>>]
                     /\ uuids' = n
                     /\ UNCHANGED <<store, faults>>
           ELSE LET new == NewEvent(source_event, n + 1, source_identifier)
                IN  /\ uuids' = n + 1
                    /\ \E ok \in BOOLEAN :
                          /\ Outcome(ok)
                          /\ store' = IF ok THEN Append(store, new) ELSE store
                          /\ rival' = [step EXCEPT
                                !.log = rival.log \o
                                   <<Call("lookup", 0, source_identifier, TRUE),
                                     Call("create", new.id, source_identifier, ok)>>]
    /\ UNCHANGED mainVars

\* Lines 442-444 in the second invocation.
RivalUpsertDone ==
    /\ rival.pc = "upsert" /\ rival.todo > Len(rival.source_events)
    /\ rival' = [rival EXCEPT !.pc = "orphan", !.todo = 1,
                              !.overlapped = Overlapping]
    /\ UNCHANGED <<store, uuids, faults, mainVars>>

\* Lines 446-464 in the second invocation: one turn of the loop over
\* dest_events.
RivalOrphan ==
    /\ rival.pc = "orphan" /\ rival.todo <= Len(rival.dest_events)
    /\ LET dest_event == rival.dest_events[rival.todo]
           source_identifier == GetOr(dest_event.fp)
           step == [rival EXCEPT !.todo = rival.todo + 1,
                                 !.overlapped = Overlapping]
       IN  IF IsOrphan(dest_event, rival.processed)
           THEN IF IsEventInPast(dest_event, clock)
                THEN /\ rival' = [step EXCEPT
                           !.log = Append(rival.log,
                                      Call("preserve", dest_event.id,
                                           source_identifier, TRUE))]
                     /\ UNCHANGED <<store, faults>>
                ELSE \E ok \in BOOLEAN :
                        /\ IF \E i \in DOMAIN store : store[i].id = dest_event.id
                           THEN Outcome(ok)
                           ELSE ~ok /\ UNCHANGED faults
                        /\ store' = IF ok THEN Deleted(store, dest_event.id)
                                    ELSE store
                        /\ rival' = [step EXCEPT
                              !.log = Append(rival.log,
                                         Call("delete", dest_event.id,
                                              source_identifier, ok))]
           ELSE rival' = step /\ UNCHANGED <<store, faults>>
    /\ UNCHANGED <<uuids, mainVars>>

\* Lines 466-472 in the second invocation.
RivalReturn ==
    /\ rival.pc = "orphan" /\ rival.todo > Len(rival.dest_events)
    /\ rival' = [rival EXCEPT !.pc = "done", !.result = "true",
                              !.overlapped = Overlapping]
    /\ UNCHANGED <<store, uuids, faults, mainVars>>

NextConcurrent ==
    \/ Next
    \/ RivalStart \/ RivalList \/ RivalUpsert \/ RivalUpsertDone
    \/ RivalOrphan \/ RivalReturn

SpecConcurrent == InitConcurrent /\ [][NextConcurrent]_vars

\* ------------------------------------------ generate_event_identifier alone
\* Two VEVENTs are handed to generate_event_identifier, in either order.
FpStarts == {NoT, DateV(1), Naive(1, 0, 0), Naive(1, 0, 1), Aware(1, 0, 0, TzOff)}
FpEnds == {NoT, DateV(1), Naive(1, 0, 0)}
FpTitles == {Txt(<<"a">>), Txt(<<"a", "_">>)}
FpLocations == {Absent, Txt(<<>>), Txt(<<"_">>)}

InitFp ==
    /\ InitFrom({<<>>}, {<<>>})
    /\ evA \in {SrcEvent(u, s, e, t, l, Absent) :
                  u \in {UidOne, Absent}, s \in FpStarts, e \in FpEnds,
                  t \in FpTitles, l \in FpLocations}
    /\ evB \in {SrcEvent(u, s, e, t, l, d) :
                  u \in {UidTwo, Absent}, s \in FpStarts, e \in FpEnds,
                  t \in FpTitles, l \in FpLocations, d \in {Absent, Txt(<<"x">>)}}
    /\ idA = <<>> /\ idB = <<>>
    /\ NoFn /\ NoCal /\ NoFind

IdentifyA ==
    /\ idA = <<>>
    /\ idA' = GenerateEventIdentifier(evA, Uuid4(uuids + 1))
    /\ uuids' = IF DrawsUuid(evA) THEN uuids + 1 ELSE uuids
    /\ UNCHANGED <<feed, store, clock, passes, faults, pc, passVars, result,
                   log, prev, store0, evA, evB, idB, fnVars,
                   outcome, rival, calVars, findVars>>

IdentifyB ==
    /\ idB = <<>>
    /\ idB' = GenerateEventIdentifier(evB, Uuid4(uuids + 1))
    /\ uuids' = IF DrawsUuid(evB) THEN uuids + 1 ELSE uuids
    /\ UNCHANGED <<feed, store, clock, passes, faults, pc, passVars, result,
                   log, prev, store0, evA, evB, idA, fnVars,
                   outcome, rival, calVars, findVars>>

NextFp == IdentifyA \/ IdentifyB

SpecFp == InitFp /\ [][NextFp]_vars

\* ------- get_source_events, event_details_changed, is_event_in_past alone
\* One VEVENT and one record of the destination are handed to the three
\* functions, in any order; the clock is the window's start and the
\* classifier's current_time.
FnStarts ==
    {NoT, DateV(2), Naive(2, 0, 0), Aware(0, 0, 0, TzOff), Aware(1, 1, 0, TzOff),
     Aware(2, 1, 1, TzOff), Aware(2, 0, 0, 0)}
FnEnds ==
    {NoT, DateV(3), Naive(2, 0, 0), Aware(1, 0, 1, TzOff), Aware(1, 1, 0, TzOff),
     Aware(3, 0, 0, TzOff), Aware(2, 0, 0, 0)}
FnRecordStarts ==
    {NoT, DateV(2), Naive(2, 0, 0), Aware(0, 0, 0, TzOff), Aware(2, 0, 0, TzOff),
     Aware(2, 1, 0, TzOff), Aware(2, 0, 0, 0)}
FnRecordEnds ==
    {NoT, DateV(0), DateV(1), DateV(3), Naive(0, 0, 0), Naive(2, 0, 0),
     Aware(1, 0, 1, TzOff), Aware(1, 1, 0, TzOff), Aware(3, 0, 0, TzOff)}

InitFn ==
    /\ InitFrom({<<>>}, {<<>>})
    /\ evA \in {SrcEvent(UidOne, s, e, Txt(<<"a">>), l, Txt(<<"x">>)) :
                  s \in FnStarts, e \in FnEnds, l \in {Absent, Txt(<<"r">>)}}
    /\ evB = EvAware /\ idA = <<>> /\ idB = <<>>
    /\ synced_event \in
          {[RecordOf(EvGone) EXCEPT !.id = 1, !.dtstart = s, !.dtend = e,
                                    !.location = l, !.description = d] :
              s \in FnRecordStarts, e \in FnRecordEnds,
              l \in {Absent, Txt(<<"r">>)},
              d \in {Absent, Txt(<<"x">>), Txt(<<"y">>)}}
    /\ in_range = "none" /\ changed = "none" /\ in_past = "none"
    /\ NoCal /\ NoFind

\* get_source_events on a calendar of the one VEVENT, with the window of
\* lines 406-407.
Filter ==
    /\ in_range = "none"
    /\ in_range' =
          IF SourceWalkRaises(<<evA>>) THEN "raised"
          ELSE IF GetSourceEvents(<<evA>>, clock, PlusDays(clock, DaysAhead),
                                  TzOff) = <<evA>>
               THEN "yes" ELSE "no"
    /\ UNCHANGED <<feed, store, clock, uuids, passes, faults, pc, passVars, result,
                   log, prev, store0, fpVars, synced_event, changed, in_past,
                   outcome, rival, calVars, findVars>>

Detect ==
    /\ changed = "none"
    /\ changed' = IF EventDetailsChanged(evA, synced_event) THEN "yes" ELSE "no"
    /\ UNCHANGED <<feed, store, clock, uuids, passes, faults, pc, passVars, result,
                   log, prev, store0, fpVars, synced_event, in_range, in_past,
                   outcome, rival, calVars, findVars>>

Classify ==
    /\ in_past = "none"
    /\ in_past' = IF IsEventInPast(synced_event, clock) THEN "yes" ELSE "no"
    /\ UNCHANGED <<feed, store, clock, uuids, passes, faults, pc, passVars, result,
                   log, prev, store0, fpVars, synced_event, in_range, changed,
                   outcome, rival, calVars, findVars>>

NextFn == Filter \/ Detect \/ Classify

SpecFn == InitFn /\ [][NextFn]_vars

\* -------------------------------------------------- get_calendar_by_name alone
\* A calendar is its name (None when the server gave none) and its position
\* in the list that principal.calendars() returned.
CalendarNames == {Absent, Txt(<<>>), Txt(<<"w">>), Txt(<<"h">>)}
RequestedNames == {Absent, Txt(<<>>), Txt(<<"w">>), Txt(<<"k">>)}

\* All sequences over S of length at most n.
SeqsUpTo(S, n) == UNION {[1..k -> S] : k \in 0..n}

\* Python's truth value of a string or None.
Truthy(p) == p.has /\ p.v # <<>>

\* A variant that returns None when no calendar has the requested name.
GetCalendarByNameStrict(cals, name, raises) ==
    IF raises \/ cals = <<>> THEN 0
    ELSE LET hits == {k \in DOMAIN cals : cals[k] = name}
         IN  IF name.has /\ name.v # <<>>
             THEN IF hits = {} THEN 0
                  ELSE CHOOSE k \in hits : \A h \in hits : k <= h
             ELSE 1

\* Lines 102-126: 0 for None, else the position of the returned calendar.
GetCalendarByName(cals, name, raises) ==
    IF raises THEN 0
    ELSE IF cals = <<>> THEN 0
    ELSE LET hits == {k \in DOMAIN cals : cals[k] = name}
         IN  IF Truthy(name) /\ hits # {}
             THEN CHOOSE k \in hits : \A h \in hits : k <= h
             ELSE 1

InitCal ==
    /\ InitFrom({<<>>}, {<<>>})
    /\ NoFp /\ NoFn /\ NoFind
    /\ calendars \in SeqsUpTo(CalendarNames, MaxCalendars)
    /\ calendar_name \in RequestedNames
    /\ dest_calendar = -1

\* connect_to_dest_calendar calls get_calendar_by_name; client.principal()
\* or principal.calendars() answers or raises.
GetCalendar ==
    /\ dest_calendar = -1
    /\ \E ok \in BOOLEAN :
          /\ Outcome(ok)
          /\ dest_calendar' = GetCalendarByName(calendars, calendar_name, ~ok)
    /\ UNCHANGED <<feed, store, clock, uuids, passes, pc, passVars, result, log,
                   prev, store0, fpVars, fnVars, outcome, rival, calendars,
                   calendar_name, findVars>>

NextCal == GetCalendar

SpecCal == InitCal /\ [][NextCal]_vars

\* ----------------------------------------------------- find_synced_event alone
\* Lists of events with and without the identifier property, with an empty
\* identifier, and with one identifier more than once.
FindRecords ==
    {RecordOf(EvAware), RecordOf(EvAwareX), RecordOf(EvGone),
     [RecordOf(EvGone) EXCEPT !.fp = Absent],
     [RecordOf(EvGone) EXCEPT !.fp = Txt(<<>>)]}

FindIdentifiers ==
    {GenerateEventIdentifier(EvAware, <<>>), GenerateEventIdentifier(EvGone, <<>>),
     GenerateEventIdentifier(EvNaive, <<>>), <<>>}

InitFind ==
    /\ InitFrom({<<>>}, {<<>>})
    /\ NoFp /\ NoFn /\ NoCal
    /\ \E rs \in SeqsUpTo(FindRecords, MaxStore) : synced_events = Numbered(rs)
    /\ source_event_identifier \in FindIdentifiers
    /\ found = -1

Find ==
    /\ found = -1
    /\ found' = FindSyncedEvent(synced_events, source_event_identifier)
    /\ UNCHANGED <<feed, store, clock, uuids, passes, faults, pc, passVars, result,
                   log, prev, store0, fpVars, fnVars, outcome, rival, calVars,
                   synced_events, source_event_identifier>>

NextFind == Find

SpecFind == InitFind /\ [][NextFind]_vars

\* ================================================================ claims
\* ---- C6: events with equal start, end, title and location get the same
\* identifier from generate_event_identifier, whatever their UIDs and
\* descriptions are.
\* The four fields of a source event, an absent end read as the start and an
\* absent title or location as the empty text.
KeyOf(e) ==
    <<e.dtstart, IF e.dtend.kind = "none" THEN e.dtstart ELSE e.dtend,
      GetOr(e.summary), GetOr(e.location)>>

SameKey(a, b) == KeyOf(a) = KeyOf(b)

BothIdentified ==
    /\ idA # <<>> /\ idB # <<>>
    /\ evA.dtstart.kind # "none" /\ evB.dtstart.kind # "none"

C6_Determinism == BothIdentified /\ SameKey(evA, evB) => idA = idB

C6_Witness ==
    /\ BothIdentified /\ SameKey(evA, evB)
    /\ evA.uid # evB.uid /\ evA.description # evB.description
    /\ idA = idB

\* ---- C7: events that differ in start, end, title or location get different
\* identifiers (the digest taken as collision-free).
C7_Distinct == BothIdentified /\ ~SameKey(evA, evB) => idA # idB


\* ------------------------------------------------- what a pass did, from its log
Writes == {"create", "update", "delete"}

\* How often the running pass called op on the record of that id.
Attempts(l, op, id) ==
    Cardinality({k \in DOMAIN l : l[k].op = op /\ l[k].id = id})

\* sync_calendars has been called and has returned or raised.
PassOver == pc = "idle" /\ passes > 0

\* The effective end of a record, DTEND if present, else DTSTART, as an
\* instant: a date is 23:59:59 of that day and a naive datetime is read in
\* the zone of t.
EffectiveEnd(r) == IF r.dtend.kind # "none" THEN r.dtend ELSE r.dtstart

EndInstant(v, t) ==
    IF v.kind = "aware" THEN Instant(v)
    ELSE IF v.kind = "naive" THEN Instant(Localize(v, t.off))
    ELSE Instant(Localize(CombineEndOfDay(v), t.off))

EndsBefore(r, t) ==
    EffectiveEnd(r).kind # "none" /\ EndInstant(EffectiveEnd(r), t) < Instant(t)

EndsAtOrAfter(r, t) ==
    EffectiveEnd(r).kind # "none" /\ EndInstant(EffectiveEnd(r), t) >= Instant(t)

\* ---- C2: a pass never calls delete on a sync-managed record whose
\* effective end is strictly before the pass's now.
C2_Retention ==
    \A k \in DOMAIN log : \A j \in DOMAIN dest_events :
        log[k].op = "delete" /\ dest_events[j].id = log[k].id
            => ~EndsBefore(dest_events[j], now)

\* ---- C3 as stated: when the pass is over, every listed record that ends at
\* or after now and whose identifier is not in the processed set had delete
\* attempted exactly once, and every listed record whose identifier is in
\* the processed set had it attempted zero times.
C3_DeletionLawAsStated ==
    PassOver /\ result = "true" =>
        \A j \in DOMAIN dest_events :
            LET r == dest_events[j] IN
            /\ EndsAtOrAfter(r, now) /\ GetOr(r.fp) \notin processed
                  => Attempts(log, "delete", r.id) = 1
            /\ GetOr(r.fp) \in processed => Attempts(log, "delete", r.id) = 0

\* ---- C3 amended: the same for the records whose identifier is not empty.
C3_DeletionLaw ==
    PassOver /\ result = "true" =>
        \A j \in DOMAIN dest_events :
            LET r == dest_events[j] IN
            /\ EndsAtOrAfter(r, now) /\ GetOr(r.fp) # <<>>
                  /\ GetOr(r.fp) \notin processed
                  => Attempts(log, "delete", r.id) = 1
            /\ GetOr(r.fp) \in processed => Attempts(log, "delete", r.id) = 0

C3_Witness ==
    /\ PassOver /\ result = "true"
    /\ \E i, j \in DOMAIN dest_events :
          /\ GetOr(dest_events[i].fp) \in processed
          /\ Attempts(log, "delete", dest_events[i].id) = 0
          /\ EndsAtOrAfter(dest_events[j], now)
          /\ GetOr(dest_events[j].fp) \notin processed
          /\ Attempts(log, "delete", dest_events[j].id) = 1

\* ---- C4: from a destination without two sync-managed records of the same
\* identifier, no pass leads to one with two such records.
UniqueIdentifiers(st) ==
    \A i, j \in DOMAIN st :
        i # j /\ IsSynced(st[i]) /\ IsSynced(st[j]) => st[i].fp # st[j].fp

C4_Unique == UniqueIdentifiers(store0) => UniqueIdentifiers(store)

\* ---- C8: when connecting or fetching fails the pass returns failure and
\* has written nothing; the connection comes before the fetch and a
\* successful connection and fetch come before every write.
C8_FatalWritesNothing ==
    /\ (\E k \in DOMAIN log : log[k].op \in {"connect", "fetch"} /\ ~log[k].ok)
          => /\ PassOver /\ result = "false"
             /\ \A k \in DOMAIN log : log[k].op \notin Writes
             /\ store = store0
    /\ \A k \in DOMAIN log :
          log[k].op = "fetch"
              => \E i \in 1..(k - 1) : log[i].op = "connect" /\ log[i].ok
    /\ \A k \in DOMAIN log :
          log[k].op \in Writes
              => \E i, j \in 1..(k - 1) :
                    /\ i < j
                    /\ log[i].op = "connect" /\ log[i].ok
                    /\ log[j].op = "fetch" /\ log[j].ok

C8_Witness ==
    /\ PassOver /\ result = "false"
    /\ Len(log) = 2 /\ log[2].op = "fetch" /\ ~log[2].ok
    /\ feed # <<>> /\ store # <<>> /\ store = store0

\* ---- C9 as stated: when a delete failed, the pass still returns success,
\* delete was attempted on every listed record that does not end before now
\* and whose identifier is not in the processed set, the record of the
\* failed delete is still stored, and removed_count counts the successful
\* deletes only.
FailedDelete == \E k \in DOMAIN log : log[k].op = "delete" /\ ~log[k].ok

DeleteFailureKept ==
    /\ result = "true"
    /\ \A k \in DOMAIN log :
          log[k].op = "delete" /\ ~log[k].ok
              => \E i \in DOMAIN store : store[i].id = log[k].id
    /\ removed_count =
          Cardinality({k \in DOMAIN log : log[k].op = "delete" /\ log[k].ok})

C9_DeleteIsolatedAsStated ==
    PassOver /\ FailedDelete =>
        /\ DeleteFailureKept
        /\ \A j \in DOMAIN dest_events :
              ~EndsBefore(dest_events[j], now)
                  /\ GetOr(dest_events[j].fp) \notin processed
                  => Attempts(log, "delete", dest_events[j].id) >= 1

\* ---- C9 amended: the same for the records whose identifier is not empty.
C9_DeleteIsolated ==
    PassOver /\ FailedDelete =>
        /\ DeleteFailureKept
        /\ \A j \in DOMAIN dest_events :
              ~EndsBefore(dest_events[j], now)
                  /\ GetOr(dest_events[j].fp) # <<>>
                  /\ GetOr(dest_events[j].fp) \notin processed
                  => Attempts(log, "delete", dest_events[j].id) >= 1

C9_Witness ==
    /\ PassOver /\ result = "true" /\ removed_count = 1
    /\ \E k, n \in DOMAIN log :
          /\ k < n
          /\ log[k].op = "delete" /\ ~log[k].ok
          /\ log[n].op = "delete" /\ log[n].ok


\* ---- C1: when a pass has completed with every call succeeding and the next
\* pass runs on the same feed at the same now, also with every call
\* succeeding, the next pass creates, updates and deletes nothing.
AllOk(l) == \A k \in DOMAIN l : l[k].ok

SecondPassOver == PassOver /\ passes >= 2 /\ result = "true"

C1_Idempotent ==
    /\ SecondPassOver /\ prev.result = "true"
    /\ AllOk(prev.log) /\ AllOk(log)
    /\ prev.feed = source_calendar /\ prev.now = now
    => \A k \in DOMAIN log : log[k].op \notin Writes

\* ---- C5: when a pass has synced a source event and the event then comes
\* back with the same content under another UID, the next pass neither
\* creates nor deletes a record for it, and the record it was synced to is
\* still stored under its id with the event's identifier.
Recreated(old, new) == old.uid # new.uid /\ [old EXCEPT !.uid = new.uid] = new

\* The ids of the records a pass with log l synced identifier f to.
SyncedIn(l, f) ==
    {l[k].id : k \in {n \in DOMAIN l :
                        /\ l[n].fp = f /\ l[n].ok
                        /\ l[n].op \in {"create", "update", "keep"}}}

C5_SurvivesRecreation ==
    SecondPassOver =>
        \A i \in DOMAIN source_events : \A j \in DOMAIN prev.feed :
            Recreated(prev.feed[j], source_events[i]) =>
                LET f == GenerateEventIdentifier(source_events[i], <<>>) IN
                \A id \in SyncedIn(prev.log, f) :
                    /\ \A k \in DOMAIN log :
                          log[k].fp = f => log[k].op \notin {"create", "delete"}
                    /\ \E n \in DOMAIN store :
                          store[n].id = id /\ store[n].fp = Txt(f)

\* ---- C10: the records a pass lists are those with the normalized title and
\* an identifier property; a record of the destination that is not of this
\* kind is never updated or deleted and stays as it was.
Unmanaged(r) == ~(GetOr(r.summary) = NormalizedTitle /\ r.fp.has)

C10_UnmanagedUntouched ==
    /\ \A i \in DOMAIN store0 :
          Unmanaged(store0[i]) =>
              /\ \E j \in DOMAIN store : store[j] = store0[i]
              /\ \A k \in DOMAIN log :
                    log[k].op \in {"update", "delete"} => log[k].id # store0[i].id
    /\ \A j \in DOMAIN dest_events : ~Unmanaged(dest_events[j])
    /\ pc = "upsert" /\ todo = 1 /\ log[Len(log)].ok
          => \A i \in DOMAIN store :
                ~Unmanaged(store[i])
                    => \E j \in DOMAIN dest_events : dest_events[j] = store[i]

C10_Witness ==
    /\ SecondPassOver
    /\ \E k \in DOMAIN log : log[k].op = "delete" /\ log[k].ok
    /\ \E i \in DOMAIN store0 : \E j \in DOMAIN store :
          /\ Unmanaged(store0[i]) /\ store0[i].fp.has
          /\ store[j] = store0[i]

\* ---- C11: in the upsert phase every candidate source event is looked up
\* once, by its identifier; the change detector runs for the matched events
\* only; an event without a match is created, a matched event the detector
\* calls changed is updated, a matched unchanged event is kept without a
\* write; and the store changes through these creates and updates only.
Lookups(l) == {p \in DOMAIN l : l[p].op = "lookup"}

\* The source event the lookup at position p of the log was made for.
EventOf(l, p) == source_events[Cardinality({q \in Lookups(l) : q <= p})]

\* Position q of the log is past the entries of one source event.
TurnEnds(l, q) ==
    q > Len(l) \/ l[q].op \notin {"changed", "unchanged", "create", "update", "keep"}

C11_UpsertDecision ==
    /\ pc = "upsert" => Cardinality(Lookups(log)) = todo - 1
    /\ pc = "orphan" => Cardinality(Lookups(log)) = Len(source_events)
    /\ \A p \in Lookups(log) :
          LET f == GenerateEventIdentifier(EventOf(log, p), <<>>)
              matched == \E j \in DOMAIN dest_events : GetOr(dest_events[j].fp) = f
          IN  /\ log[p].fp = f
              /\ log[p].id = 0 <=> ~matched
              /\ Len(log) > p
              /\ IF matched
                 THEN /\ log[p + 1].op \in {"changed", "unchanged"}
                      /\ Len(log) > p + 1
                      /\ log[p + 2].op =
                            (IF log[p + 1].op = "changed" THEN "update" ELSE "keep")
                      /\ log[p + 1].id = log[p].id /\ log[p + 2].id = log[p].id
                      /\ TurnEnds(log, p + 3)
                 ELSE log[p + 1].op = "create" /\ TurnEnds(log, p + 2)
    /\ \A q \in DOMAIN log :
          /\ log[q].op \in {"changed", "unchanged", "create"}
                => q > 1 /\ log[q - 1].op = "lookup"
          /\ log[q].op \in {"update", "keep"}
                => q > 2 /\ log[q - 2].op = "lookup"
    /\ (\A q \in DOMAIN log : log[q].op \in {"create", "update"} => ~log[q].ok)
          /\ pc \in {"list", "upsert"}
          => store = store0

C11_Witness ==
    /\ PassOver /\ result = "true"
    /\ \E p, q \in DOMAIN log :
          /\ log[p].op = "keep"
          /\ log[q].op = "update" /\ log[q].ok
    /\ Len(store) = Len(store0) /\ store # store0

\* ---- C12: a successful create leaves exactly one record of the new id; the
\* id is that of no record the destination held before and, as a UID, is not
\* the source event's UID; the record has the normalized title, the source
\* event's identifier, and the source event's start, end, location and
\* description, each absent where the source event has none.
Created(l) == {q \in DOMAIN l : l[q].op = "create" /\ l[q].ok}

C12_CreatePostcondition ==
    \A q \in Created(log) :
        LET e == EventOf(log, q)
            made == {n \in DOMAIN store : store[n].id = log[q].id}
        IN  /\ Cardinality(made) = 1
            /\ \A i \in DOMAIN store0 : store0[i].id # log[q].id
            /\ Uuid4(log[q].id) # GetOr(e.uid)
            /\ \A n \in made :
                  /\ store[n].summary = Txt(NormalizedTitle)
                  /\ store[n].fp = Txt(GenerateEventIdentifier(e, <<>>))
                  /\ store[n].dtstart = e.dtstart
                  /\ store[n].dtend = e.dtend
                  /\ store[n].location = e.location
                  /\ store[n].description = e.description

C12_Witness ==
    /\ PassOver /\ result = "true" /\ store0 # <<>>
    /\ \E q \in Created(log) : \E n \in DOMAIN store :
          /\ store[n].id = log[q].id
          /\ store[n].location.has /\ store[n].dtend = NoT
          /\ ~store[n].description.has
          /\ EventOf(log, q).summary # store[n].summary

\* ---- C13: a successful update adds no record and changes no other record;
\* the record it updates keeps its id and its identifier property, gets the
\* normalized title, and gets the start, end, location and description of
\* the source event, each absent where the source event has none.
UpdateSucceeds ==
    /\ pc = "upsert" /\ Len(log') > Len(log)
    /\ log'[Len(log')].op = "update" /\ log'[Len(log')].ok

C13_UpdateInPlace ==
    [][UpdateSucceeds =>
        LET e == source_events[todo]
            id == log'[Len(log')].id
        IN  /\ Len(store') = Len(store)
            /\ \E n \in DOMAIN store : store[n].id = id
            /\ \A n \in DOMAIN store :
                  IF store[n].id = id
                  THEN /\ store'[n].id = store[n].id
                       /\ store'[n].fp = store[n].fp
                       /\ store'[n].summary = Txt(NormalizedTitle)
                       /\ store'[n].dtstart = e.dtstart
                       /\ store'[n].dtend = e.dtend
                       /\ store'[n].location = e.location
                       /\ store'[n].description = e.description
                  ELSE store'[n] = store[n]]_vars

C13_Witness ==
    /\ PassOver /\ result = "true"
    /\ Len(store) = Len(store0) /\ Len(source_events) = 1
    /\ \E q \in DOMAIN log : \E n \in DOMAIN store :
          /\ log[q].op = "update" /\ log[q].ok
          /\ store[n].id = log[q].id /\ store0[n].id = log[q].id
          /\ store0[n].description.has /\ ~store[n].description.has
          /\ store[n].fp = store0[n].fp
          /\ store[n].dtstart = source_events[1].dtstart

\* ---- C14: get_source_events keeps a source event whose start is not after
\* its end exactly when the interval from its start to its end (the start
\* again when it has no end) overlaps the window from now to now plus the
\* horizon: start <= window end and end >= window start.
\* The instant a start or end stands for in the configured zone: a date is
\* midnight of that day, a naive datetime is local.
LocalInstant(v) ==
    IF v.kind = "aware" THEN Instant(v)
    ELSE IF v.kind = "naive" THEN WallTicks(v) - TzOff * SecPerMin
    ELSE (v.day * MinPerDay) * SecPerMin - TzOff * SecPerMin

StartOf(e) == LocalInstant(e.dtstart)
EndOf(e) == IF e.dtend.kind = "none" THEN StartOf(e) ELSE LocalInstant(e.dtend)
WindowStart == Instant(clock)
WindowEnd == Instant(clock) + DaysAhead * MinPerDay * SecPerMin

C14_WindowInclusion ==
    in_range # "none" /\ evA.dtstart.kind # "none" /\ StartOf(evA) <= EndOf(evA)
        => (in_range = "yes"
               <=> StartOf(evA) <= WindowEnd /\ EndOf(evA) >= WindowStart)

\* An event that spans the whole window is kept.
C14_Witness ==
    /\ in_range = "yes"
    /\ StartOf(evA) < WindowStart /\ EndOf(evA) > WindowEnd

\* ---- C15 as stated: event_details_changed answers "not changed" exactly
\* when both sides have a start and the starts are equal, both have no end or
\* both have an end and the ends are equal, and location and description are
\* each absent on both sides or present with equal values.  Two values are
\* equal when they are of the same kind (date, naive or aware datetime) and
\* are the same day, the same wall-clock time or the same instant.
EqualValues(a, b) ==
    /\ a.kind = b.kind
    /\ IF a.kind = "date" THEN a.day = b.day
       ELSE IF a.kind = "naive" THEN WallTicks(a) = WallTicks(b)
       ELSE Instant(a) = Instant(b)

\* The same, a naive datetime facing an aware one being read as UTC.
EqualValuesNaiveAsUtc(a, b) ==
    IF a.kind = "naive" /\ b.kind = "aware" THEN WallTicks(a) = Instant(b)
    ELSE IF a.kind = "aware" /\ b.kind = "naive" THEN Instant(a) = WallTicks(b)
    ELSE EqualValues(a, b)

IsDate(v) == v.kind = "date"

C16_EndAndTypeMismatch ==
    changed # "none" =>
        /\ (evA.dtend.kind = "none") # (synced_event.dtend.kind = "none")
              => changed = "yes"
        /\ IsDate(evA.dtstart) # IsDate(synced_event.dtstart) => changed = "yes"
        /\ evA.dtend.kind # "none" /\ synced_event.dtend.kind # "none"
              /\ IsDate(evA.dtend) # IsDate(synced_event.dtend)
              => changed = "yes"

\* A date facing midnight of the same day, everything else equal.
C16_Witness ==
    /\ changed = "yes"
    /\ evA.dtstart = DateV(2) /\ synced_event.dtstart = Naive(2, 0, 0)
    /\ evA.dtend = synced_event.dtend
    /\ evA.location = synced_event.location
    /\ evA.description = synced_event.description

\* ---- C17: is_event_in_past answers "past" exactly when the record's
\* effective end (DTEND, else DTSTART; a date as 23:59:59 of that day in the
\* zone of now) is strictly before now.
C17_Classifier ==
    in_past # "none" => (in_past = "yes" <=> EndsBefore(synced_event, clock))

\* ---- C18: a pass deletes no listed record whose pastness the classifier
\* cannot determine: a record with neither start nor end, or one
\* whose effective end is a timezone-naive datetime (now is aware).
Undeterminable(r) == EffectiveEnd(r).kind \in {"none", "naive"}

C18_UndeterminableRetained ==
    \A k \in DOMAIN log : \A j \in DOMAIN dest_events :
        log[k].op = "delete" /\ log[k].ok /\ dest_events[j].id = log[k].id
            => ~Undeterminable(dest_events[j])

\* ---- C19: when the fetched feed holds an event without a start, the pass
\* still returns success and every well-formed event of the feed that
\* overlaps the window has been looked up and created, updated or kept.
Malformed(e) == e.dtstart.kind = "none"

Fetched == \E k \in DOMAIN log : log[k].op = "fetch" /\ log[k].ok

C19_MalformedAbsorbed ==
    PassOver /\ Fetched /\ (\E i \in DOMAIN source_calendar :
                                Malformed(source_calendar[i]))
        => /\ result = "true"
           /\ \A i \in DOMAIN source_calendar :
                 LET e == source_calendar[i] IN
                 ~Malformed(e) /\ StartOf(e) <= EndOf(e)
                     /\ StartOf(e) <= Instant(PlusDays(now, DaysAhead))
                     /\ EndOf(e) >= Instant(now)
                     => \E q \in DOMAIN log :
                           /\ log[q].op \in {"create", "update", "keep"}
                           /\ log[q].fp = GenerateEventIdentifier(e, <<>>)

\* ---- C20: a pass that is over has returned success or failure, and it
\* has returned failure exactly when connecting or fetching failed.
C20_PassOutcome ==
    PassOver =>
        /\ result \in {"true", "false"}
        /\ result = "false"
              <=> \E k \in DOMAIN log :
                     log[k].op \in {"connect", "fetch"} /\ ~log[k].ok

\* ---- C21: over a destination that was empty before the first pass and a
\* feed that does not change, no pass deletes a record that carries the
\* identifier of an event of the feed, however far the clock has moved.
C21_HistoryPreserved ==
    \A k \in DOMAIN log :
        log[k].op = "delete" /\ log[k].ok
            => \A i \in DOMAIN feed :
                  GenerateEventIdentifier(feed[i], <<>>) # log[k].fp

\* ---- C22: for an event without a start generate_event_identifier returns
\* the event's UID when it has one and otherwise an identifier that is not
\* empty, is no UID of the two events and differs from the one returned for
\* the other event.
NoStart(e) == e.dtstart.kind = "none"

C22_Fallback ==
    /\ idA # <<>> /\ NoStart(evA) /\ evA.uid.has => idA = evA.uid.v
    /\ idB # <<>> /\ NoStart(evB) /\ evB.uid.has => idB = evB.uid.v
    /\ idA # <<>> /\ NoStart(evA) /\ ~evA.uid.has
          => idA \notin {GetOr(evA.uid), GetOr(evB.uid), UidOne.v, idB}
    /\ idB # <<>> /\ NoStart(evB) /\ ~evB.uid.has
          => idB \notin {GetOr(evA.uid), GetOr(evB.uid), UidOne.v, idA}
    /\ NoStart(evA) /\ idA = <<>> => ENABLED IdentifyA
    /\ NoStart(evB) /\ idB = <<>> => ENABLED IdentifyB

\* Two events without start and UID have got two identifiers.
C22_Witness ==
    /\ NoStart(evA) /\ NoStart(evB) /\ ~evA.uid.has /\ ~evB.uid.has
    /\ idA # <<>> /\ idB # <<>> /\ idA # idB

\* ---- C23 as stated: the window filter, the change detector and the past
\* classifier read a temporal value as one and the same instant: a date as
\* midnight of that day in the configured zone, a naive datetime as local
\* in the configured zone, an aware datetime as it is.
\* The filter keeps an event without end exactly when its start is in the
\* window.
FilterReadsLocal ==
    in_range \in {"yes", "no"} /\ evA.dtend.kind = "none"
        => (in_range = "yes"
               <=> WindowStart <= StartOf(evA) /\ StartOf(evA) <= WindowEnd)

\* The two sides differ in nothing but, possibly, the start.
OnlyStartsCompared ==
    /\ changed # "none"
    /\ evA.dtstart.kind # "none" /\ synced_event.dtstart.kind # "none"
    /\ evA.dtend.kind = "none" /\ synced_event.dtend.kind = "none"
    /\ evA.location = synced_event.location
    /\ evA.description = synced_event.description

Classified == in_past # "none" /\ EffectiveEnd(synced_event).kind # "none"

Listings(l) == {k \in DOMAIN l : l[k].op = "list"}

C24_PhaseOrdering ==
    /\ Cardinality(Listings(log)) <= 1
    /\ pc \in {"upsert", "orphan"} => Cardinality(Listings(log)) = 1
    /\ \A k \in DOMAIN log :
          log[k].op \in Writes
              => \E i, j \in 1..(k - 1) :
                    /\ log[i].op = "fetch" /\ log[i].ok
                    /\ log[j].op = "list"
    /\ \A j, k \in DOMAIN log :
          log[j].op \in {"create", "update"} /\ log[k].op = "delete" => j < k
    /\ \A k \in DOMAIN log :
          log[k].op \in {"delete", "preserve"}
              => \E j \in DOMAIN dest_events : dest_events[j].id = log[k].id

\* A pass that created, updated and then deleted.
C24_Witness ==
    /\ PassOver /\ result = "true"
    /\ \E i, j, k \in DOMAIN log :
          /\ i < j /\ j < k
          /\ log[i].op = "list" /\ log[i].ok
          /\ log[j].op \in {"create", "update"} /\ log[j].ok
          /\ log[k].op = "delete" /\ log[k].ok

\* ---- C25: a pass over the same feed and the same destination, their
\* elements returned in another order, performs the same creates, updates
\* and deletes and leaves the same records (their ids aside).
Contents(st) == {[st[k] EXCEPT !.id = 0] : k \in DOMAIN st}

Performed(l) ==
    {<<l[k].op, l[k].fp>> : k \in {n \in DOMAIN l : l[n].op \in Writes}}

HowMany(l) == Cardinality({n \in DOMAIN l : l[n].op \in Writes})

BothOrdersRun ==
    /\ PassOver /\ passes = 2 /\ outcome.set
    /\ result = "true" /\ prev.result = "true"
    /\ AllOk(log) /\ AllOk(prev.log)

C25_OrderIndependent ==
    BothOrdersRun =>
        /\ Performed(log) = Performed(prev.log)
        /\ HowMany(log) = HowMany(prev.log)
        /\ Contents(store) = Contents(outcome.store)
        /\ Len(store) = Len(outcome.store)

\* ---- C26: when the store rejects the create or the update of a source
\* event, the pass goes on: the rejected create leaves no record and the
\* rejected update leaves the matched record as it was, the identifier counts
\* as processed and no delete is attempted on it, and at the end of the pass
\* every source event was looked up, every orphan of the listing was
\* preserved or had its delete attempted, and the pass returned True.
FailedWrites(l) == {k \in DOMAIN l : l[k].op \in {"create", "update"} /\ ~l[k].ok}

RecordsOf(st, id) == {i \in DOMAIN st : st[i].id = id}

StoreKeptFor(k) ==
    IF log[k].op = "create"
    THEN RecordsOf(store, log[k].id) = {}
    ELSE /\ RecordsOf(store, log[k].id) # {}
         /\ (\A n \in DOMAIN log :
                 log[n].op = "update" /\ log[n].id = log[k].id => ~log[n].ok)
             => \A i \in RecordsOf(store, log[k].id) :
                   \E j \in DOMAIN store0 : store0[j] = store[i]

OrphanLoopRan ==
    \A j \in DOMAIN dest_events :
        IsOrphan(dest_events[j], processed) =>
            \E n \in DOMAIN log :
                /\ log[n].id = dest_events[j].id
                /\ log[n].op = IF IsEventInPast(dest_events[j], now)
                               THEN "preserve" ELSE "delete"

C26_WriteFailureIsolated ==
    \A k \in FailedWrites(log) :
        /\ pc \in {"upsert", "orphan", "idle"}
        /\ StoreKeptFor(k)
        /\ log[k].fp \in processed
        /\ \A n \in DOMAIN log :
              log[n].op = "delete" => log[n].fp # log[k].fp /\ log[n].id # log[k].id
        /\ PassOver =>
              /\ result = "true"
              /\ Cardinality(Lookups(log)) = Len(source_events)
              /\ OrphanLoopRan

C26_Witness ==
    /\ PassOver /\ result = "true"
    /\ \E k \in FailedWrites(log) : \E m, n \in DOMAIN log :
          /\ k < m /\ m < n
          /\ log[m].op \in {"create", "update"} /\ log[m].ok
          /\ log[n].op = "delete" /\ log[n].ok

\* ---- C27: after a successful create or update from a source event, the
\* change detector finds the source event and the record just written not
\* changed, and the record's identifier property is the identifier of the
\* source event.
WriteSucceeds ==
    /\ pc = "upsert" /\ Len(log') > Len(log)
    /\ log'[Len(log')].op \in {"create", "update"} /\ log'[Len(log')].ok

C27_WriteEstablishesUnchanged ==
    [][WriteSucceeds =>
        LET S == source_events[todo]
            written == {n \in DOMAIN store' : store'[n].id = log'[Len(log')].id}
        IN  /\ written # {}
            /\ \A n \in written :
                  /\ ~EventDetailsChanged(S, store'[n])
                  /\ store'[n].fp = Txt(GenerateEventIdentifier(S, <<>>))]_vars

C27_Witness ==
    /\ PassOver /\ result = "true"
    /\ \E q, k \in DOMAIN log : \E n, i \in DOMAIN store :
          /\ log[q].op = "update" /\ log[q].ok /\ store[n].id = log[q].id
          /\ log[k].op = "create" /\ log[k].ok /\ store[i].id = log[k].id
          /\ store[n].description.has
          /\ store[i].location.has /\ store[i].dtstart.kind = "naive"

\* ---- C28: after a pass that completed with every call succeeding, every
\* candidate source event has a sync-managed record with its identifier in
\* the destination, and when the candidates have pairwise distinct
\* identifiers that record has the start, end, location and description of
\* the source event.
IdentifierOf(e) == GenerateEventIdentifier(e, <<>>)

DistinctCandidates ==
    \A i, j \in DOMAIN source_events :
        i # j => IdentifierOf(source_events[i]) # IdentifierOf(source_events[j])

SameDetails(e, r) ==
    /\ EqualValues(e.dtstart, r.dtstart)
    /\ \/ e.dtend.kind = "none" /\ r.dtend.kind = "none"
       \/ e.dtend.kind # "none" /\ r.dtend.kind # "none"
             /\ EqualValues(e.dtend, r.dtend)
    /\ e.location = r.location
    /\ e.description = r.description

CleanPassOver == PassOver /\ result = "true" /\ AllOk(log)

C28_Converged ==
    CleanPassOver =>
        \A i \in DOMAIN source_events :
            \E n \in DOMAIN store :
                /\ IsSynced(store[n])
                /\ store[n].fp = Txt(IdentifierOf(source_events[i]))
                /\ DistinctCandidates => SameDetails(source_events[i], store[n])

\* ---- C29: no delete is attempted on a record that the pass created or
\* updated, nor on a record whose identifier is the identifier of a candidate
\* source event; every record that had such an identifier before the pass,
\* a second one with the same identifier included, is still in the
\* destination.
CandidateIdentifiers ==
    {GenerateEventIdentifier(source_events[i], <<>>) : i \in DOMAIN source_events}

C29_NoWriteThenDelete ==
    /\ \A n \in DOMAIN log :
          log[n].op = "delete" =>
              /\ \A k \in DOMAIN log :
                    log[k].op \in {"create", "update"} => log[k].id # log[n].id
              /\ log[n].fp \notin CandidateIdentifiers
    /\ pc \in {"orphan", "idle"} /\ passes > 0 /\ result \in {"none", "true"} =>
          \A j \in DOMAIN store0 :
              GetOr(store0[j].fp) \in CandidateIdentifiers
                  => \E i \in DOMAIN store : store[i].id = store0[j].id

\* A record was updated, a second record with the same identifier was left
\* alone by the loop over dest_events, and both are in the destination.
C29_Witness ==
    /\ PassOver /\ result = "true" /\ Len(dest_events) = 2
    /\ \E k \in DOMAIN log : \E i, j \in DOMAIN store :
          /\ log[k].op = "update" /\ log[k].ok
          /\ store[i].id = log[k].id /\ store[j].id # log[k].id
          /\ store[i].fp = store[j].fp
          /\ GetOr(store[i].fp) \in CandidateIdentifiers

\* ---- C30: when the listing of the destination fails after a successful
\* connect and fetch, the pass goes on with no managed record: it attempts
\* one create for every candidate source event, no update and no delete, and
\* returns True.
ListingFailed == \E k \in DOMAIN log : log[k].op = "list" /\ ~log[k].ok

C30_ListingFailureAsEmpty ==
    ListingFailed =>
        /\ \E c, f \in DOMAIN log :
              log[c].op = "connect" /\ log[c].ok /\ log[f].op = "fetch" /\ log[f].ok
        /\ dest_events = <<>>
        /\ pc \in {"upsert", "orphan", "idle"}
        /\ \A k \in DOMAIN log :
              log[k].op \notin {"update", "keep", "delete", "preserve"}
        /\ \A p \in Lookups(log) : log[p].id = 0
        /\ PassOver =>
              /\ result = "true"
              /\ Cardinality({k \in DOMAIN log : log[k].op = "create"})
                    = Len(source_events)
              /\ \A j \in DOMAIN store0 :
                    \E i \in DOMAIN store : store[i] = store0[j]

\* The listing failed over a destination that holds the record of a
\* candidate event, and the pass created the event again.
C30_Witness ==
    /\ PassOver /\ result = "true" /\ ListingFailed
    /\ \E k \in DOMAIN log : \E j \in DOMAIN store0 :
          /\ log[k].op = "create" /\ log[k].ok
          /\ IsSynced(store0[j]) /\ GetOr(store0[j].fp) = log[k].fp
    /\ Len(store) = Len(store0) + Len(source_events)
    /\ Len(source_events) = 2

\* ---- C31: when the two invocations never ran at the same time, the feed
\* has no two events of one identifier and the destination had no two
\* sync-managed records of one identifier, no two sync-managed records have
\* one identifier.  (That two overlapping invocations which both list before
\* either creates leave two such records is C31_Interleaved.)
FeedWithoutCollisions ==
    \A i, j \in DOMAIN feed :
        i # j => GenerateEventIdentifier(feed[i], <<>>)
                     # GenerateEventIdentifier(feed[j], <<>>)

C31_OnePassAtATime ==
    ~rival.overlapped /\ FeedWithoutCollisions /\ UniqueIdentifiers(store0)
        => UniqueIdentifiers(store)

\* Both invocations listed the destination before either created, every call
\* of both succeeded, and two sync-managed records have one identifier.
C31_Interleaved ==
    /\ rival.overlapped /\ FeedWithoutCollisions /\ UniqueIdentifiers(store0)
    /\ PassOver /\ result = "true" /\ rival.pc = "done" /\ rival.result = "true"
    /\ AllOk(log) /\ AllOk(rival.log)
    /\ ~UniqueIdentifiers(store)

\* ---- C32 as stated: get_calendar_by_name returns a calendar with the
\* requested name when there is one; the first calendar when no name is given
\* or no calendar has the name; None exactly when the account has no calendar
\* or the access raised.
Raised == faults > 0

Named(n) == {k \in DOMAIN calendars : calendars[k] = n}

C32_SelectionAsStated ==
    dest_calendar # -1 =>
        /\ ~Raised /\ calendar_name.has /\ Named(calendar_name) # {}
              => dest_calendar \in Named(calendar_name)
        /\ ~Raised /\ calendars # <<>>
              /\ (~calendar_name.has \/ Named(calendar_name) = {})
              => dest_calendar = 1
        /\ dest_calendar = 0 <=> (calendars = <<>> \/ Raised)

\* ---- C32 amended: the same, an empty requested name counting as no name
\* given; of several calendars with the requested name the first is returned.
C32_Selection ==
    dest_calendar # -1 =>
        /\ ~Raised /\ Truthy(calendar_name) /\ Named(calendar_name) # {}
              => /\ dest_calendar \in Named(calendar_name)
                 /\ \A h \in Named(calendar_name) : dest_calendar <= h
        /\ ~Raised /\ calendars # <<>>
              /\ (~Truthy(calendar_name) \/ Named(calendar_name) = {})
              => dest_calendar = 1
        /\ dest_calendar = 0 <=> (calendars = <<>> \/ Raised)

\* The second of two calendars was returned for its name.
C32_Witness ==
    /\ dest_calendar = 2 /\ Len(calendars) = 2
    /\ calendars[2] = calendar_name /\ calendars[1] # calendar_name

\* ---- C33 as stated: find_synced_event returns the first event of the list
\* whose identifier property is the given identifier, and None exactly when
\* no event of the list has that identifier property.
HitsWhere(carries(_, _)) ==
    {k \in DOMAIN synced_events :
        carries(synced_events[k], source_event_identifier)}

FirstOf(hits) ==
    /\ found = 0 <=> hits = {}
    /\ found # 0 => found \in hits /\ \A h \in hits : found <= h

HasProperty(r, f) == r.fp.has /\ r.fp.v = f

ReadsAs(r, f) == GetOr(r.fp) = f

====
